---- MODULE Spec2Model ----
(***************************************************************************)
(* Model of data-gatherer/network_performance_tester.py, class             *)
(* NetworkPerformanceTester: the zone-file loader, the CGN address check,  *)
(* the iperf3 trial runner and its 5-trial aggregation, the metric         *)
(* extractors, the dig based resolution trial and its run over a pool of  *)
(* 5 worker threads.                                                       *)
(*                                                                         *)
(* Strings that the code inspects character by character (zone fields)     *)
(* are sequences of one-character strings.  A Python call that can raise   *)
(* is an operator returning a record with an exc field ("none" when the    *)
(* call returns) next to its value.                                        *)
(***************************************************************************)
EXTENDS Integers, Sequences, FiniteSets, TLC

VARIABLES
    \* _parse_zone_file
    zone_pc,          \* "open" | "reading" | "returned" | "raised"
    parsed_records,   \* the dict being built: sequence of [domain, type, target]
    zone_line,        \* the fields of the line processed last
    zone_before,      \* parsed_records as it was before that line
    zone_count,       \* number of lines read so far
    zone_exc          \* exception that left _parse_zone_file, or "none"

vars_zone == <<zone_pc, parsed_records, zone_line, zone_before, zone_count, zone_exc>>

VARIABLES
    \* _is_cgn_ip
    cgn_pc,           \* "idle" | "done"
    cgn_call          \* the last call: [arg, exc, val]

vars_cgn == <<cgn_pc, cgn_call>>

VARIABLES
    \* extract_bandwidth, extract_retransmits, extract_jitter, extract_packet_loss
    ext_pc,           \* "idle" | "done"
    ext_payload,      \* the json_data argument
    ext_results       \* [bandwidth, retransmits, jitter, packet_loss], each [exc, val]

vars_ext == <<ext_pc, ext_payload, ext_results>>

VARIABLES
    \* run_iperf_test
    trial_pc,         \* "idle" | "returned" | "raised"
    trial_call,       \* the arguments and what iperf3 does: [server, scenario, env]
    trial_result,     \* the dict run_iperf_test returned
    trial_exc,        \* the exception that left run_iperf_test, or "none"
    timeout_sec,      \* the local timeout_sec handed to subprocess.run
    iperf_invocations \* number of subprocess.run calls made by the trial

vars_trial == <<trial_pc, trial_call, trial_result, trial_exc, timeout_sec,
                iperf_invocations>>

VARIABLES
    \* run_all_iperf_tests
    iperf_pc,         \* "start" | "trial" | "in_trial" | "aggregate" | "done" | "raised"
    servers,          \* the servers argument
    server_i,         \* position of the outer loop in servers
    scenario_i,       \* position of the inner loop in self.iperf_scenarios
    trial_results,    \* the local list trial_results
    results_iperf,    \* self.results['iperf_tests']
    iperf_exc,        \* the exception that left run_all_iperf_tests, or "none"
    iperf_in_flight   \* run_iperf_test calls entered and not yet left

vars_iperf == <<iperf_pc, servers, server_i, scenario_i, trial_results,
                results_iperf, iperf_exc, iperf_in_flight>>

VARIABLES
    \* run_dns_performance_test
    dns_pc,                 \* "idle" | "returned" | "raised"
    dns_entries_from_zone,  \* self.dns_entries_from_zone (dns_domains_to_test is its keys)
    dns_call,               \* the arguments and what dig does: [domain, dns_server, env]
    dns_result,             \* the result_entry returned
    dns_exc,                \* the exception that left the method, or "none"
    dig_invocations         \* number of subprocess.run calls made by the call

vars_dns == <<dns_pc, dns_entries_from_zone, dns_call, dns_result, dns_exc,
              dig_invocations>>

VARIABLES
    \* run_all_dns_tests
    pool_pc,          \* "start" | "enter" | "submit" | "collect" | "done" | "raised"
    dns_servers,      \* the local dns_servers: [is_none, list], None or a list
    dns_server_i,     \* position of "for dns_server in dns_servers"
    pool_env,         \* what dig does during the run
    pool_threads,     \* threads of the executor of the current with block
    futures,          \* the list futures: [state, domain, dns_server]
    results_dns       \* self.results['dns_tests']

vars_pool == <<pool_pc, dns_servers, dns_server_i, pool_env, pool_threads,
               futures, results_dns>>

vars == <<vars_zone, vars_cgn, vars_ext, vars_trial, vars_iperf, vars_dns,
          vars_pool>>

vars_notzone  == <<vars_cgn, vars_ext, vars_trial, vars_iperf, vars_dns,
                   vars_pool>>
vars_notcgn   == <<vars_zone, vars_ext, vars_trial, vars_iperf, vars_dns,
                   vars_pool>>
vars_notext   == <<vars_zone, vars_cgn, vars_trial, vars_iperf, vars_dns,
                   vars_pool>>
vars_nottrial == <<vars_zone, vars_cgn, vars_ext, vars_iperf, vars_dns,
                   vars_pool>>
vars_notiperf == <<vars_zone, vars_cgn, vars_ext, vars_trial, vars_dns,
                   vars_pool>>
vars_notpool  == <<vars_zone, vars_cgn, vars_ext, vars_trial, vars_iperf, vars_dns>>
vars_notdns   == <<vars_zone, vars_cgn, vars_ext, vars_trial, vars_iperf,
                   vars_pool>>

-----------------------------------------------------------------------------
(* Bounds *)

MaxPoolLookups == 6

MaxZoneLines == 3
MaxAddrParts == 4

-----------------------------------------------------------------------------
(* Python exceptions: the classes an exception is an instance of, and      *)
(* whether an except clause naming `handlers` catches it.                  *)

Mro(exc) ==
    CASE exc = "ValueError"         -> {"ValueError", "Exception"}
      [] exc = "AddressValueError"  -> {"AddressValueError", "ValueError", "Exception"}
      [] exc = "JSONDecodeError"    -> {"JSONDecodeError", "ValueError", "Exception"}
      [] exc = "IndexError"         -> {"IndexError", "LookupError", "Exception"}
      [] exc = "KeyError"           -> {"KeyError", "LookupError", "Exception"}
      [] exc = "TypeError"          -> {"TypeError", "Exception"}
      [] exc = "AttributeError"     -> {"AttributeError", "Exception"}
      [] exc = "FileNotFoundError"  -> {"FileNotFoundError", "OSError", "Exception"}
      [] exc = "TimeoutExpired"     -> {"TimeoutExpired", "SubprocessError", "Exception"}
      [] OTHER                      -> {}

Caught(exc, handlers) == (Mro(exc) \cap handlers) # {}

-----------------------------------------------------------------------------
(* Python string methods on character sequences *)

\* str.rstrip('.'): drop every trailing dot
RECURSIVE RStripDot(_)
RStripDot(s) ==
    IF s # <<>> /\ s[Len(s)] = "."
    THEN RStripDot(SubSeq(s, 1, Len(s) - 1))
    ELSE s

\* str.upper() on one character of the alphabet used by the zone lines
UpperChar(c) ==
    CASE c = "a" -> "A"
      [] c = "c" -> "C"
      [] c = "n" -> "N"
      [] c = "m" -> "M"
      [] c = "e" -> "E"
      [] c = "x" -> "X"
      [] OTHER -> c

Upper(s) == [i \in 1..Len(s) |-> UpperChar(s[i])]

\* line.startswith(ch), for a stripped line given as its whitespace-separated
\* fields: the line starts with the first character of its first field
StartsWith(fields, ch) ==
    /\ fields # <<>>
    /\ fields[1] # <<>>
    /\ fields[1][1] = ch

-----------------------------------------------------------------------------
(* Zone lines offered to the loader, each as the result of                 *)
(* re.split(r'\s+', line.strip()); the blank line has no field.            *)

F_a_dot    == <<"a", ".">>
F_b_dot    == <<"b", ".">>
F_c        == <<"c">>
F_ttl      == <<"5">>
F_IN       == <<"I", "N">>
F_A        == <<"A">>
F_a_lower  == <<"a">>
F_cname    == <<"c", "n", "a", "m", "e">>
F_CNAME    == <<"C", "N", "A", "M", "E">>
F_MX       == <<"M", "X">>
F_ip       == <<"1", "0", "0", ".", "6", "4", ".", "1", ".", "5">>

L_blank     == <<>>
L_comment   == << <<";">>, F_a_dot, F_ttl, F_IN, F_A, F_ip >>
L_directive == << <<"$", "T">>, F_ttl >>
L_one       == << F_a_dot >>
L_three     == << F_a_dot, F_IN, F_A >>
L_noTtl     == << F_a_dot, F_IN, F_A, F_ip >>
L_A         == << F_a_dot, F_ttl, F_IN, F_a_lower, F_ip >>
L_CNAME     == << F_b_dot, F_ttl, F_IN, F_cname, F_a_dot >>
L_MX        == << F_c, F_ttl, F_IN, F_MX, F_a_dot >>
L_six       == << F_c, F_ttl, F_IN, F_A, F_ip, <<";">> >>

ZoneLines ==
    {L_blank, L_comment, L_directive, L_one, L_three, L_noTtl,
     L_A, L_CNAME, L_MX, L_six}

-----------------------------------------------------------------------------
(* _parse_zone_file *)

\* parsed_records[domain] = value on a Python dict kept as a sequence of
\* entries in insertion order: an existing key keeps its place
DictPut(recs, domain, type, target) ==
    LET entry == [domain |-> domain, type |-> type, target |-> target]
    IN  IF \E i \in 1..Len(recs) : recs[i].domain = domain
        THEN [i \in 1..Len(recs) |->
                 IF recs[i].domain = domain THEN entry ELSE recs[i]]
        ELSE Append(recs, entry)

DictKeys(recs) == [i \in 1..Len(recs) |-> recs[i].domain]

\* the body of "for line in f" for one line
ParseLine(recs, fields) ==
    IF fields = <<>> \/ StartsWith(fields, ";") \/ StartsWith(fields, "$")
    THEN [exc |-> "none", recs |-> recs]
    ELSE IF Len(fields) < 4
    THEN [exc |-> "none", recs |-> recs]
    ELSE IF Len(fields) < 5
    THEN [exc |-> "IndexError", recs |-> recs]       \* target = parts[4]
    ELSE LET domain      == RStripDot(fields[1])
             record_type == Upper(fields[4])
             target      == fields[5]
         IN  IF record_type = F_A
             THEN [exc |-> "none", recs |-> DictPut(recs, domain, "A", target)]
             ELSE IF record_type = F_CNAME
             THEN [exc |-> "none",
                   recs |-> DictPut(recs, domain, "CNAME", RStripDot(target))]
             ELSE [exc |-> "none", recs |-> recs]

\* the whole loader on a file that exists
RECURSIVE ParseZoneLines(_, _)
ParseZoneLines(recs, lines) ==
    IF lines = <<>>
    THEN [exc |-> "none", recs |-> recs]
    ELSE LET r == ParseLine(recs, Head(lines))
         IN  IF r.exc # "none" THEN r ELSE ParseZoneLines(r.recs, Tail(lines))

ZoneInit ==
    /\ zone_pc = "open"
    /\ parsed_records = <<>>
    /\ zone_line = <<>>
    /\ zone_before = <<>>
    /\ zone_count = 0
    /\ zone_exc = "none"

\* open(filename) raises FileNotFoundError: caught, the empty dict is returned
ZoneFileMissing ==
    /\ zone_pc = "open"
    /\ zone_pc' = "returned"
    /\ UNCHANGED <<parsed_records, zone_line, zone_before, zone_count, zone_exc>>
    /\ UNCHANGED vars_notzone

ZoneFileOpened ==
    /\ zone_pc = "open"
    /\ zone_pc' = "reading"
    /\ UNCHANGED <<parsed_records, zone_line, zone_before, zone_count, zone_exc>>
    /\ UNCHANGED vars_notzone

ZoneReadLine ==
    /\ zone_pc = "reading"
    /\ zone_count < MaxZoneLines
    /\ \E fields \in ZoneLines :
        LET r == ParseLine(parsed_records, fields)
        IN  /\ zone_line' = fields
            /\ zone_before' = parsed_records
            /\ zone_count' = zone_count + 1
            /\ parsed_records' = r.recs
            /\ zone_exc' = r.exc
            /\ zone_pc' = IF r.exc = "none" THEN "reading" ELSE "raised"
    /\ UNCHANGED vars_notzone

ZoneEndOfFile ==
    /\ zone_pc = "reading"
    /\ zone_pc' = "returned"
    /\ UNCHANGED <<parsed_records, zone_line, zone_before, zone_count, zone_exc>>
    /\ UNCHANGED vars_notzone

NextZone ==
    \/ ZoneFileMissing
    \/ ZoneFileOpened
    \/ ZoneReadLine
    \/ ZoneEndOfFile

-----------------------------------------------------------------------------
(* ipaddress.ip_address and _is_cgn_ip.  An address text is given as the   *)
(* sequence of its pieces between dots, each piece a character sequence.   *)

Digits == {"0", "1", "2", "3", "4", "5", "6", "7", "8", "9"}

DigitVal(c) ==
    CASE c = "0" -> 0 [] c = "1" -> 1 [] c = "2" -> 2 [] c = "3" -> 3
      [] c = "4" -> 4 [] c = "5" -> 5 [] c = "6" -> 6 [] c = "7" -> 7
      [] c = "8" -> 8 [] c = "9" -> 9

RECURSIVE DecimalValue(_)
DecimalValue(s) ==
    IF s = <<>> THEN 0
    ELSE 10 * DecimalValue(SubSeq(s, 1, Len(s) - 1)) + DigitVal(s[Len(s)])

\* one octet of a dotted quad: 1 to 3 decimal digits, at most 255; -1 when
\* the piece is no octet
ParseOctet(piece) ==
    IF piece = <<>> \/ Len(piece) > 3 \/ \E i \in 1..Len(piece) : piece[i] \notin Digits
    THEN -1
    ELSE IF DecimalValue(piece) > 255 THEN -1 ELSE DecimalValue(piece)

IsIPv4Text(text) ==
    /\ Len(text) = 4
    /\ \A i \in 1..4 : ParseOctet(text[i]) # -1

\* the packed 32-bit address, kept as its four bytes (base 256, most
\* significant first) so that no intermediate value leaves 32 signed bits
PackIPv4(text) == [i \in 1..4 |-> ParseOctet(text[i])]

\* the IPv6 literals of the model: texts that IPv6Address accepts
V6_loopback == << <<":", ":", "1">> >>
V6_mapped   == << <<":", ":", "f", "f", "f", "f", ":", "1", "0", "0">>,
                  <<"6", "4">>, <<"1">>, <<"5">> >>
IPv6Texts == {V6_loopback, V6_mapped}

\* ipaddress.ip_address(text): IPv4Address, else IPv6Address, else ValueError
IpAddress(text) ==
    IF IsIPv4Text(text)
    THEN [exc |-> "none", version |-> 4, ip |-> PackIPv4(text)]
    ELSE IF text \in IPv6Texts
    THEN [exc |-> "none", version |-> 6, ip |-> <<0, 0, 0, 0>>]
    ELSE [exc |-> "ValueError", version |-> 0, ip |-> <<0, 0, 0, 0>>]

\* self.cgn_cidr = ipaddress.ip_network('100.64.0.0/10')
CgnPrefixLen == 10
CgnNetworkAddress == <<100, 64, 0, 0>>

\* byte i of ip & netmask for a /prefixlen netmask: the netmask keeps the
\* leading prefixlen bits, so byte i keeps its top `kept` bits
MaskedByte(byte, i, prefixlen) ==
    LET bits == prefixlen - 8 * (i - 1)
        kept == IF bits < 0 THEN 0 ELSE IF bits > 8 THEN 8 ELSE bits
    IN  byte - (byte % (2 ^ (8 - kept)))

\* address in network: same version and ip & netmask = network address
InNetwork(addr, network_address, prefixlen) ==
    /\ addr.version = 4
    /\ \A i \in 1..4 : MaskedByte(addr.ip[i], i, prefixlen) = network_address[i]

IsCgnIp(text) ==
    LET a == IpAddress(text)
    IN  IF a.exc = "none"
        THEN [exc |-> "none", val |-> InNetwork(a, CgnNetworkAddress, CgnPrefixLen)]
        ELSE IF Caught(a.exc, {"AddressValueError"})
        THEN [exc |-> "none", val |-> FALSE]
        ELSE [exc |-> a.exc, val |-> FALSE]

P_100 == <<"1", "0", "0">>
P_64  == <<"6", "4">>
P_63  == <<"6", "3">>
P_127 == <<"1", "2", "7">>
P_128 == <<"1", "2", "8">>
P_8   == <<"8">>
P_256 == <<"2", "5", "6">>
P_x   == <<"x">>

AddrPieces == {P_100, P_64, P_63, P_127, P_128, P_8, P_256, P_x}

RECURSIVE PieceSeqs(_)
PieceSeqs(n) ==
    IF n = 0 THEN {<<>>}
    ELSE LET shorter == PieceSeqs(n - 1)
         IN  shorter \cup {Append(t, p) : t \in {u \in shorter : Len(u) = n - 1},
                                          p \in AddrPieces}

\* the argument strings of the model; <<>> is the empty string
AddrTexts == PieceSeqs(MaxAddrParts) \cup IPv6Texts

\* no call of _is_cgn_ip is pending
CgnIdle ==
    /\ cgn_pc = "idle"
    /\ cgn_call = [arg |-> <<>>, exc |-> "none", val |-> FALSE]

\* a caller is about to pass `arg`
CgnInit ==
    /\ cgn_pc = "idle"
    /\ \E text \in AddrTexts :
        cgn_call = [arg |-> text, exc |-> "none", val |-> FALSE]

CallIsCgnIp ==
    /\ cgn_pc = "idle"
    /\ LET r == IsCgnIp(cgn_call.arg)
       IN  cgn_call' = [arg |-> cgn_call.arg, exc |-> r.exc, val |-> r.val]
    /\ cgn_pc' = "done"
    /\ UNCHANGED vars_notcgn

-----------------------------------------------------------------------------
(* JSON values as json.loads returns them.  A value is a record            *)
(*   t   : "dict" | "list" | "str" | "num" | "null"                        *)
(*   n   : the number, for "num"                                           *)
(*   m   : the mapping key -> value, for "dict"                            *)
(*   has : for "list" the strings that are elements of it, for "str" the   *)
(*         key names that are substrings of it                             *)

NoMap == [k \in {} |-> 0]

JNum(n)     == [t |-> "num",  n |-> n, m |-> NoMap, has |-> {}]
JNull       == [t |-> "null", n |-> 0, m |-> NoMap, has |-> {}]
JStr(has)   == [t |-> "str",  n |-> 0, m |-> NoMap, has |-> has]
JList(has)  == [t |-> "list", n |-> 0, m |-> NoMap, has |-> has]
JDict(m)    == [t |-> "dict", n |-> 0, m |-> m,     has |-> {}]

\* key in j
PyIn(key, j) ==
    CASE j.t = "dict"           -> [exc |-> "none", b |-> key \in DOMAIN j.m]
      [] j.t \in {"list", "str"} -> [exc |-> "none", b |-> key \in j.has]
      [] OTHER                  -> [exc |-> "TypeError", b |-> FALSE]

\* j[key] with a string key
PySubscript(j, key) ==
    IF j.t = "dict"
    THEN IF key \in DOMAIN j.m
         THEN [exc |-> "none", val |-> j.m[key]]
         ELSE [exc |-> "KeyError", val |-> JNull]
    ELSE [exc |-> "TypeError", val |-> JNull]

\* j.get(key, default): only a dict has .get
PyGet(j, key, default) ==
    IF j.t = "dict"
    THEN [exc |-> "none", val |-> IF key \in DOMAIN j.m THEN j.m[key] ELSE default]
    ELSE [exc |-> "AttributeError", val |-> JNull]

\* j / 1_000_000 (the numbers of the model are multiples of 1 000 000)
PyDivMillion(j) ==
    IF j.t = "num"
    THEN [exc |-> "none", val |-> JNum(j.n \div 1000000)]
    ELSE [exc |-> "TypeError", val |-> JNull]

\* k1 in j and k2 in j[k1]
PyInIn(j, k1, k2) ==
    LET a == PyIn(k1, j)
    IN  IF a.exc # "none" \/ ~a.b THEN a
        ELSE LET s == PySubscript(j, k1)
             IN  IF s.exc # "none" THEN [exc |-> s.exc, b |-> FALSE]
                 ELSE PyIn(k2, s.val)

\* j[k1][k2]
PyPath2(j, k1, k2) ==
    LET s == PySubscript(j, k1)
    IN  IF s.exc # "none" THEN s ELSE PySubscript(s.val, k2)

\* try: body  except handlers: return default
TryReturn(r, handlers, default) ==
    IF r.exc # "none" /\ Caught(r.exc, handlers)
    THEN [exc |-> "none", val |-> default]
    ELSE r

ExtractHandlers == {"KeyError", "TypeError"}

\* json_data['end'][sumkey]['bits_per_second'] / 1_000_000
BitsPerSecondMbps(end, sumkey) ==
    LET v == PyPath2(end, sumkey, "bits_per_second")
    IN  IF v.exc # "none" THEN v ELSE PyDivMillion(v.val)

ExtractBandwidthBody(json_data) ==
    LET has_end == PyIn("end", json_data)
    IN  IF has_end.exc # "none" THEN [exc |-> has_end.exc, val |-> JNull]
        ELSE IF ~has_end.b THEN [exc |-> "none", val |-> JNum(0)]
        ELSE LET end == PySubscript(json_data, "end")
             IN  IF end.exc # "none" THEN end
                 ELSE LET recv == PyInIn(end.val, "sum_received", "bits_per_second")
                      IN  IF recv.exc # "none" THEN [exc |-> recv.exc, val |-> JNull]
                          ELSE IF recv.b THEN BitsPerSecondMbps(end.val, "sum_received")
                          ELSE LET sent == PyInIn(end.val, "sum_sent", "bits_per_second")
                               IN  IF sent.exc # "none"
                                   THEN [exc |-> sent.exc, val |-> JNull]
                                   ELSE IF sent.b
                                   THEN BitsPerSecondMbps(end.val, "sum_sent")
                                   ELSE [exc |-> "none", val |-> JNum(0)]

extract_bandwidth(json_data) ==
    TryReturn(ExtractBandwidthBody(json_data), ExtractHandlers, JNum(0))

\* if 'end' in json_data and sumkey in json_data['end']:
\*     return json_data['end'][sumkey].get(field, 0)
\* return 0
ExtractGetBody(json_data, sumkey, field) ==
    LET cond == PyInIn(json_data, "end", sumkey)
    IN  IF cond.exc # "none" THEN [exc |-> cond.exc, val |-> JNull]
        ELSE IF ~cond.b THEN [exc |-> "none", val |-> JNum(0)]
        ELSE LET sum == PyPath2(json_data, "end", sumkey)
             IN  IF sum.exc # "none" THEN sum
                 ELSE PyGet(sum.val, field, JNum(0))

extract_retransmits(json_data) ==
    TryReturn(ExtractGetBody(json_data, "sum_sent", "retransmits"),
              ExtractHandlers, JNum(0))

extract_jitter(json_data) ==
    TryReturn(ExtractGetBody(json_data, "sum", "jitter_ms"),
              ExtractHandlers, JNum(0))

extract_packet_loss(json_data) ==
    TryReturn(ExtractGetBody(json_data, "sum", "lost_percent"),
              ExtractHandlers, JNum(0))

(* The payloads of the model: every combination of the three aggregates    *)
(* of 'end' being absent, a mapping (with or without its field) or not a   *)
(* mapping, and 'end' and the payload itself being a mapping or not.       *)

Absent == [present |-> FALSE, v |-> JNull]
Present(v) == [present |-> TRUE, v |-> v]

Bps2G == JNum(2000000000)
Bps1G == JNum(1000000000)

SumReceivedChoices ==
    {Absent,
     Present(JDict([k \in {"bits_per_second"} |-> Bps2G])),
     Present(JDict([k \in {"bits_per_second"} |-> JStr({})])),
     Present(JDict(NoMap)),
     Present(JNull),
     Present(JList({"bits_per_second"}))}

SumSentChoices ==
    {Absent,
     Present(JDict([k \in {"bits_per_second", "retransmits"} |->
                       IF k = "retransmits" THEN JNum(3) ELSE Bps1G])),
     Present(JDict([k \in {"bits_per_second"} |-> Bps1G])),
     Present(JDict(NoMap)),
     Present(JNull),
     Present(JNum(7)),
     Present(JList({"retransmits"}))}

SumChoices ==
    {Absent,
     Present(JDict([k \in {"jitter_ms", "lost_percent"} |->
                       IF k = "jitter_ms" THEN JNum(4) ELSE JNum(6)])),
     Present(JDict(NoMap)),
     Present(JNull),
     Present(JStr({"jitter_ms", "lost_percent"}))}

EndDict(sr, ss, su) ==
    JDict([k \in {x \in {"sum_received", "sum_sent", "sum"} :
                   \/ x = "sum_received" /\ sr.present
                   \/ x = "sum_sent" /\ ss.present
                   \/ x = "sum" /\ su.present} |->
             CASE k = "sum_received" -> sr.v
               [] k = "sum_sent"     -> ss.v
               [] OTHER              -> su.v])

EndValues ==
    {EndDict(sr, ss, su) :
        sr \in SumReceivedChoices, ss \in SumSentChoices, su \in SumChoices}
    \cup {JNull, JNum(1), JStr({"sum_sent", "sum"}), JList({"sum_received", "sum"})}

Payloads ==
    {JDict([k \in {"end"} |-> e]) : e \in EndValues}
    \cup {JDict(NoMap), JNull, JNum(1), JStr({"end"}), JList({"end"})}

NoResult == [exc |-> "none", val |-> JNull]

ExtIdle ==
    /\ ext_pc = "idle"
    /\ ext_payload = JNull
    /\ ext_results = [bandwidth |-> NoResult, retransmits |-> NoResult,
                      jitter |-> NoResult, packet_loss |-> NoResult]

ExtInit ==
    /\ ext_pc = "idle"
    /\ ext_payload \in Payloads
    /\ ext_results = [bandwidth |-> NoResult, retransmits |-> NoResult,
                      jitter |-> NoResult, packet_loss |-> NoResult]

CallExtractors ==
    /\ ext_pc = "idle"
    /\ ext_pc' = "done"
    /\ ext_results' = [bandwidth   |-> extract_bandwidth(ext_payload),
                       retransmits |-> extract_retransmits(ext_payload),
                       jitter      |-> extract_jitter(ext_payload),
                       packet_loss |-> extract_packet_loss(ext_payload)]
    /\ UNCHANGED ext_payload
    /\ UNCHANGED vars_notext

-----------------------------------------------------------------------------
(* run_iperf_test *)

\* entries of self.iperf_scenarios
Scenario_TcpCongestionT30 ==
    [name |-> "TCP Congestion Test (P8, T30)",
     params |-> <<"-c", "{server}", "-t", "30", "-P", "8", "-J">>]
Scenario_Udp100M ==
    [name |-> "UDP Bandwidth (100Mbps)",
     params |-> <<"-c", "{server}", "-t", "10", "-u", "-b", "100M", "-J">>]

\* other scenario dicts a caller of run_iperf_test can pass
Scenario_NoDuration ==
    [name |-> "no duration", params |-> <<"-c", "{server}", "-J">>]
Scenario_DurationLast ==
    [name |-> "duration flag last", params |-> <<"-c", "{server}", "-J", "-t">>]
Scenario_DurationNotInt ==
    [name |-> "duration not a number",
     params |-> <<"-c", "{server}", "-t", "abc", "-J">>]
Scenario_TwoDurations ==
    [name |-> "two durations",
     params |-> <<"-c", "{server}", "-t", "10", "-t", "30", "-J">>]

IperfScenarios == {Scenario_TcpCongestionT30, Scenario_Udp100M}

ScenarioArgs ==
    IperfScenarios \cup {Scenario_NoDuration, Scenario_DurationLast,
                         Scenario_DurationNotInt, Scenario_TwoDurations}

Servers == {"10.0.0.1", "iperf.example"}

\* param.format(server=server) if '{server}' in param else param
FormatParam(param, server) == IF param = "{server}" THEN server ELSE param

FormatParams(params, server) ==
    [i \in 1..Len(params) |-> FormatParam(params[i], server)]

\* int(token) for the tokens of the model
PyInt(token) ==
    CASE token = "30" -> [exc |-> "none", n |-> 30]
      [] token = "10" -> [exc |-> "none", n |-> 10]
      [] token = "8"  -> [exc |-> "none", n |-> 8]
      [] OTHER        -> [exc |-> "ValueError", n |-> 0]

TimeoutDefault == 60
TimeoutHeadroom == 20

\* for i, p in enumerate(params): ... from (1-based) index i on
RECURSIVE TimeoutLoop(_, _, _)
TimeoutLoop(params, i, t) ==
    IF i > Len(params) THEN t
    ELSE IF params[i] = "-t" /\ i + 1 <= Len(params)
    THEN LET d == PyInt(params[i + 1])
         IN  IF d.exc = "none"
             THEN TimeoutLoop(params, i + 1, d.n + TimeoutHeadroom)
             ELSE TimeoutLoop(params, i + 1, t)      \* except ValueError: pass
    ELSE TimeoutLoop(params, i + 1, t)

\* a timeout that also gives the default its headroom
TimeoutSecHeadroomOnDefault(params) ==
    LET t == TimeoutLoop(params, 1, TimeoutDefault)
    IN  IF \E i \in 1..Len(params) : params[i] = "-t"
        THEN t ELSE TimeoutDefault + TimeoutHeadroom

TimeoutSec(params) == TimeoutLoop(params, 1, TimeoutDefault)

(* What subprocess.run(cmd, timeout=timeout_sec) does: the tool is not     *)
(* there, it does not finish in time, or it exits with a return code,      *)
(* stdout and stderr after `elapsed` seconds.  stdout is empty, text that  *)
(* is no JSON, or a JSON document.                                         *)

StdoutEmpty       == [kind |-> "empty",   json |-> JNull]
StdoutGarbage     == [kind |-> "garbage", json |-> JNull]
StdoutJson(j)     == [kind |-> "json",    json |-> j]

RunMissing ==
    [kind |-> "missing", returncode |-> 0, stdout |-> StdoutEmpty,
     stderr |-> "", elapsed |-> 0]
RunTimeout ==
    [kind |-> "timeout", returncode |-> 0, stdout |-> StdoutEmpty,
     stderr |-> "", elapsed |-> 0]
RunExit(rc, out, err, elapsed) ==
    [kind |-> "exit", returncode |-> rc, stdout |-> out, stderr |-> err,
     elapsed |-> elapsed]

\* iperf3 -J documents: TCP (receiver and sender sums), reverse TCP without
\* the receiver sum, UDP (sum with jitter and loss), and degenerate ones
Json_Tcp100 ==
    JDict([k \in {"end"} |-> JDict([a \in {"sum_received", "sum_sent"} |->
        IF a = "sum_received"
        THEN JDict([f \in {"bits_per_second"} |-> JNum(100000000)])
        ELSE JDict([f \in {"bits_per_second", "retransmits"} |->
                IF f = "retransmits" THEN JNum(1) ELSE JNum(120000000)])])])
Json_Tcp200 ==
    JDict([k \in {"end"} |-> JDict([a \in {"sum_received", "sum_sent"} |->
        IF a = "sum_received"
        THEN JDict([f \in {"bits_per_second"} |-> JNum(200000000)])
        ELSE JDict([f \in {"bits_per_second", "retransmits"} |->
                IF f = "retransmits" THEN JNum(2) ELSE JNum(220000000)])])])
Json_Reverse300 ==
    JDict([k \in {"end"} |-> JDict([a \in {"sum_sent"} |->
        JDict([f \in {"bits_per_second", "retransmits"} |->
                IF f = "retransmits" THEN JNum(0) ELSE JNum(300000000)])])])
Json_Udp150 ==
    JDict([k \in {"end"} |-> JDict([a \in {"sum_received", "sum"} |->
        IF a = "sum_received"
        THEN JDict([f \in {"bits_per_second"} |-> JNum(150000000)])
        ELSE JDict([f \in {"jitter_ms", "lost_percent"} |->
                IF f = "jitter_ms" THEN JNum(4) ELSE JNum(6)])])])
Json_Tcp250 ==
    JDict([k \in {"end"} |-> JDict([a \in {"sum_received"} |->
        JDict([f \in {"bits_per_second"} |-> JNum(250000000)])])])
Json_NoEnd == JDict(NoMap)
Json_SumSentNull ==
    JDict([k \in {"end"} |-> JDict([a \in {"sum_sent"} |-> JNull])])

TrialJsons ==
    {Json_Tcp100, Json_Tcp200, Json_Reverse300, Json_Udp150, Json_Tcp250,
     Json_NoEnd, JNull, Json_SumSentNull}

ElapsedOk == 12
ElapsedFail == 2

TrialEnvs ==
    {RunMissing, RunTimeout}
    \cup {RunExit(1, out, err, ElapsedFail) :
            out \in {StdoutEmpty, StdoutJson(Json_NoEnd)},
            err \in {"", "iperf3: error - unable to connect to server"}}
    \cup {RunExit(0, out, "", ElapsedOk) :
            out \in {StdoutEmpty, StdoutGarbage}
                    \cup {StdoutJson(j) : j \in TrialJsons}}

\* the number an extractor returned (the documents of the model hold numbers)
NumOf(r) == r.val.n

\* the dict returned by the except subprocess.TimeoutExpired clause, with
\* the duration set to the time the tool was given by the scenario alone
TimeoutResultWithoutHeadroom(server, scenario, t) ==
    [server |-> server, scenario |-> scenario.name, success |-> FALSE,
     error |-> "Timeout", duration |-> t - TimeoutHeadroom, data |-> JDict(NoMap)]

\* the dict returned by the except subprocess.TimeoutExpired clause
TimeoutResult(server, scenario, t) ==
    [server |-> server, scenario |-> scenario.name, success |-> FALSE,
     error |-> "Timeout", duration |-> t, data |-> JDict(NoMap)]

FailedResult(server, scenario, error, duration) ==
    [server |-> server, scenario |-> scenario.name, success |-> FALSE,
     error |-> error, duration |-> duration, data |-> JDict(NoMap)]

NoTrialResult == FailedResult("", [name |-> "", params |-> <<>>], "", 0)

\* run_iperf_test(server, scenario) when subprocess.run behaves as env:
\* [exc, result, timeout_sec, invocations]
RunIperfTest(server, scenario, env) ==
    LET params == FormatParams(scenario.params, server)
        t      == TimeoutSec(params)
        out(exc, result) ==
            [exc |-> exc, result |-> result, timeout_sec |-> t, invocations |-> 1]
    IN  CASE env.kind = "timeout" ->
               out("none", TimeoutResult(server, scenario, t))
          [] env.kind = "missing" ->
               \* FileNotFoundError is no TimeoutExpired: it leaves the method
               IF Caught("FileNotFoundError", {"TimeoutExpired"})
               THEN out("none", TimeoutResult(server, scenario, t))
               ELSE out("FileNotFoundError", NoTrialResult)
          [] OTHER ->
               IF env.returncode = 0 /\ env.stdout.kind # "empty"
               THEN IF env.stdout.kind = "garbage"
                    THEN out("none", FailedResult(server, scenario,
                                "Invalid JSON output from iperf3", env.elapsed))
                    ELSE LET json_data == env.stdout.json
                             bw == extract_bandwidth(json_data)
                             rt == extract_retransmits(json_data)
                             ji == extract_jitter(json_data)
                             pl == extract_packet_loss(json_data)
                             raised ==
                                 IF bw.exc # "none" THEN bw.exc
                                 ELSE IF rt.exc # "none" THEN rt.exc
                                 ELSE IF ji.exc # "none" THEN ji.exc
                                 ELSE pl.exc
                         IN  IF raised # "none"
                             THEN out(raised, NoTrialResult)
                             ELSE out("none",
                                      [server |-> server,
                                       scenario |-> scenario.name,
                                       success |-> TRUE,
                                       duration |-> env.elapsed,
                                       data |-> json_data,
                                       bandwidth_mbps |-> NumOf(bw),
                                       retransmits |-> NumOf(rt),
                                       jitter_ms |-> NumOf(ji),
                                       packet_loss |-> NumOf(pl)])
               ELSE out("none", FailedResult(server, scenario,
                            IF env.stderr # "" THEN env.stderr ELSE "Unknown error",
                            env.elapsed))

TrialIdleWith(server, scenario, env) ==
    /\ trial_pc = "idle"
    /\ trial_call = [server |-> server, scenario |-> scenario, env |-> env]
    /\ trial_result = NoTrialResult
    /\ trial_exc = "none"
    /\ timeout_sec = 0
    /\ iperf_invocations = 0

TrialIdle == TrialIdleWith("", [name |-> "", params |-> <<>>], RunTimeout)

TrialInit ==
    \E server \in Servers, scenario \in ScenarioArgs, env \in TrialEnvs :
        TrialIdleWith(server, scenario, env)

CallRunIperfTest ==
    /\ trial_pc = "idle"
    /\ LET r == RunIperfTest(trial_call.server, trial_call.scenario, trial_call.env)
       IN  /\ trial_pc' = IF r.exc = "none" THEN "returned" ELSE "raised"
           /\ trial_result' = r.result
           /\ trial_exc' = r.exc
           /\ timeout_sec' = r.timeout_sec
           /\ iperf_invocations' = r.invocations
    /\ UNCHANGED trial_call
    /\ UNCHANGED vars_nottrial

-----------------------------------------------------------------------------
(* run_all_iperf_tests *)

NumTrials == 5

\* self.iperf_scenarios, in order (two of its nineteen entries)
iperf_scenarios == <<Scenario_TcpCongestionT30, Scenario_Udp100M>>

\* sorted(data)
RECURSIVE InsertSorted(_, _)
InsertSorted(s, x) ==
    IF s = <<>> THEN <<x>>
    ELSE IF x <= Head(s) THEN <<x>> \o s
    ELSE <<Head(s)>> \o InsertSorted(Tail(s), x)

RECURSIVE Sorted(_)
Sorted(xs) ==
    IF xs = <<>> THEN <<>>
    ELSE InsertSorted(Sorted(Tail(xs)), Head(xs))

\* twice statistics.median(xs): the middle sample counted twice, or the sum
\* of the two middle samples
Median2(xs) ==
    LET s == Sorted(xs)
        n == Len(xs)
    IN  IF n % 2 = 1
        THEN 2 * s[(n + 1) \div 2]
        ELSE s[n \div 2] + s[n \div 2 + 1]

\* the mean of the samples instead of their median
MeanOfSamples(xs) ==
    LET sum[i \in 0..Len(xs)] == IF i = 0 THEN 0 ELSE sum[i - 1] + xs[i]
    IN  sum[Len(xs)] \div Len(xs)

\* statistics.median(xs) for the float-valued samples; in the model these
\* samples are even numbers, so the mean of the two middle ones is whole
Median(xs) == Median2(xs) \div 2

\* int(statistics.median(xs)) for counts: int() drops the fraction
IntMedian(xs) == Median2(xs) \div 2

\* '; '.join(errors) with the messages in the opposite order
JoinErrorsReversed(errors) ==
    LET j[i \in 1..Len(errors)] ==
            IF i = 1 THEN errors[Len(errors)]
            ELSE j[i - 1] \o "; " \o errors[Len(errors) + 1 - i]
    IN  IF errors = <<>> THEN "" ELSE j[Len(errors)]

\* '; '.join(errors)
JoinErrors(errors) ==
    LET j[i \in 1..Len(errors)] ==
            IF i = 1 THEN errors[1] ELSE j[i - 1] \o "; " \o errors[i]
    IN  IF errors = <<>> THEN "" ELSE j[Len(errors)]

\* r.get('error', 'Unknown')
ErrorOf(r) == IF "error" \in DOMAIN r THEN r.error ELSE "Unknown"

IsSuccess(r) == r.success

Column(rs, f) == [i \in 1..Len(rs) |-> rs[i][f]]

\* the aggregated dict made from the trials of one (server, scenario) pair
Aggregate(server, scenario, trials) ==
    LET successful_trials == SelectSeq(trials, IsSuccess)
    IN  IF successful_trials # <<>>
        THEN [server |-> server,
              scenario |-> scenario.name,
              success |-> TRUE,
              bandwidth_mbps |-> Median(Column(successful_trials, "bandwidth_mbps")),
              retransmits |-> IntMedian(Column(successful_trials, "retransmits")),
              jitter_ms |-> Median(Column(successful_trials, "jitter_ms")),
              packet_loss |-> Median(Column(successful_trials, "packet_loss")),
              duration |-> Median(Column(successful_trials, "duration")),
              all_raw_data |-> Column(successful_trials, "data")]
        ELSE [server |-> server,
              scenario |-> scenario.name,
              success |-> FALSE,
              error |-> JoinErrors([i \in 1..Len(trials) |-> ErrorOf(trials[i])]),
              bandwidth_mbps |-> 0,
              retransmits |-> 0,
              jitter_ms |-> 0,
              packet_loss |-> 0,
              duration |-> Median(Column(trials, "duration")),
              all_raw_data |-> <<>>]

\* what iperf3 does during a whole run of run_all_iperf_tests
RunEnvs ==
    {RunMissing, RunTimeout,
     RunExit(1, StdoutEmpty, "iperf3: error - unable to connect to server", ElapsedFail),
     RunExit(0, StdoutJson(Json_Tcp100), "", ElapsedOk),
     RunExit(0, StdoutJson(Json_Tcp200), "", ElapsedOk)}

\* what iperf3 does in the trials of one batch that reaches its aggregation
BatchEnvs ==
    {RunTimeout,
     RunExit(1, StdoutEmpty, "", ElapsedFail),
     RunExit(0, StdoutGarbage, "", ElapsedOk)}
    \cup {RunExit(0, StdoutJson(j), "", ElapsedOk) :
            j \in {Json_Tcp100, Json_Tcp200, Json_Udp150, Json_Reverse300,
                   Json_Tcp250}}

ServerLists == {<<>>, <<"10.0.0.1">>}

IperfIdle ==
    /\ iperf_pc = "done"
    /\ servers = <<>>
    /\ server_i = 1
    /\ scenario_i = 1
    /\ trial_results = <<>>
    /\ results_iperf = <<>>
    /\ iperf_exc = "none"
    /\ iperf_in_flight = 0

IperfInit ==
    /\ iperf_pc = "start"
    /\ servers \in ServerLists
    /\ server_i = 1
    /\ scenario_i = 1
    /\ trial_results = <<>>
    /\ results_iperf = <<>>
    /\ iperf_exc = "none"
    /\ iperf_in_flight = 0

\* a run that has made the five trials of its last pair and is about to
\* aggregate them
BatchInit ==
    /\ iperf_pc = "aggregate"
    /\ servers = <<"10.0.0.1">>
    /\ server_i = 1
    /\ scenario_i = Len(iperf_scenarios)
    /\ \E envs \in [1..NumTrials -> BatchEnvs] :
        trial_results =
            [i \in 1..NumTrials |->
                RunIperfTest(servers[server_i], iperf_scenarios[scenario_i],
                             envs[i]).result]
    /\ results_iperf = <<>>
    /\ iperf_exc = "none"
    /\ iperf_in_flight = 0

\* entering the loops: "for server in servers: for scenario in ..."
IperfStart ==
    /\ iperf_pc = "start"
    /\ iperf_pc' = IF servers = <<>> THEN "done" ELSE "trial"
    /\ UNCHANGED <<servers, server_i, scenario_i, trial_results, results_iperf,
                   iperf_exc, iperf_in_flight>>
    /\ UNCHANGED vars_notiperf

\* one pass of "for i in range(5)": run_iperf_test is entered
IperfTrialCall ==
    /\ iperf_pc = "trial"
    /\ Len(trial_results) < NumTrials
    /\ iperf_pc' = "in_trial"
    /\ iperf_in_flight' = iperf_in_flight + 1
    /\ UNCHANGED <<servers, server_i, scenario_i, trial_results, results_iperf,
                   iperf_exc>>
    /\ UNCHANGED vars_notiperf

\* a loop that leaves for the aggregation one trial early
IperfTrialOneShort ==
    /\ iperf_pc = "in_trial"
    /\ iperf_in_flight' = iperf_in_flight - 1
    /\ \E env \in RunEnvs :
        LET r == RunIperfTest(servers[server_i], iperf_scenarios[scenario_i], env)
        IN  IF r.exc # "none"
            THEN /\ iperf_pc' = "raised"
                 /\ iperf_exc' = r.exc
                 /\ UNCHANGED trial_results
            ELSE /\ trial_results' = Append(trial_results, r.result)
                 /\ iperf_pc' = IF Len(trial_results) + 1 >= NumTrials - 1
                                THEN "aggregate" ELSE "trial"
                 /\ UNCHANGED iperf_exc
    /\ UNCHANGED <<servers, server_i, scenario_i, results_iperf>>
    /\ UNCHANGED vars_notiperf

\* run_iperf_test returns (or raises) and its result is appended to
\* trial_results
IperfTrial ==
    /\ iperf_pc = "in_trial"
    /\ iperf_in_flight' = iperf_in_flight - 1
    /\ \E env \in RunEnvs :
        LET r == RunIperfTest(servers[server_i], iperf_scenarios[scenario_i], env)
        IN  IF r.exc # "none"
            THEN /\ iperf_pc' = "raised"
                 /\ iperf_exc' = r.exc
                 /\ UNCHANGED trial_results
            ELSE /\ trial_results' = Append(trial_results, r.result)
                 /\ iperf_pc' = IF Len(trial_results) + 1 = NumTrials
                                THEN "aggregate" ELSE "trial"
                 /\ UNCHANGED iperf_exc
    /\ UNCHANGED <<servers, server_i, scenario_i, results_iperf>>
    /\ UNCHANGED vars_notiperf

\* after the five trials: aggregate, append to self.results['iperf_tests'],
\* and go on with the next scenario or server
IperfAggregate ==
    /\ iperf_pc = "aggregate"
    /\ results_iperf' =
          Append(results_iperf,
                 Aggregate(servers[server_i], iperf_scenarios[scenario_i],
                           trial_results))
    /\ trial_results' = <<>>
    /\ IF scenario_i < Len(iperf_scenarios)
       THEN /\ scenario_i' = scenario_i + 1
            /\ server_i' = server_i
            /\ iperf_pc' = "trial"
       ELSE /\ scenario_i' = 1
            /\ server_i' = server_i + 1
            /\ iperf_pc' = IF server_i < Len(servers) THEN "trial" ELSE "done"
    /\ UNCHANGED <<servers, iperf_exc, iperf_in_flight>>
    /\ UNCHANGED vars_notiperf

-----------------------------------------------------------------------------
(* run_dns_performance_test *)

\* the decimal digits of n, as str() writes them
DigitChar(d) ==
    CASE d = 0 -> "0" [] d = 1 -> "1" [] d = 2 -> "2" [] d = 3 -> "3"
      [] d = 4 -> "4" [] d = 5 -> "5" [] d = 6 -> "6" [] d = 7 -> "7"
      [] d = 8 -> "8" [] d = 9 -> "9"

RECURSIVE DecimalText(_)
DecimalText(n) ==
    IF n < 10 THEN <<DigitChar(n)>>
    ELSE Append(DecimalText(n \div 10), DigitChar(n % 10))

\* str(ipaddress.ip_address(text)) for a text ip_address accepts
AddressStr(text) ==
    IF IsIPv4Text(text)
    THEN [i \in 1..4 |-> DecimalText(ParseOctet(text[i]))]
    ELSE text

(* A line of dig +short output after strip(): whether it contains the      *)
(* token CNAME, and its text as pieces between dots; the blank line has    *)
(* no text.                                                                *)

DigLine(cname, text) == [cname |-> cname, text |-> text]

Line_blank    == DigLine(FALSE, <<>>)
Line_cgn      == DigLine(FALSE, <<P_100, P_64, <<"1">>, <<"5">> >>)
Line_cgn_top  == DigLine(FALSE, <<P_100, P_127, <<"2", "5", "5">>, <<"2", "5", "5">> >>)
Line_above    == DigLine(FALSE, <<P_100, P_128, <<"0">>, <<"0">> >>)
Line_public   == DigLine(FALSE, <<P_8, P_8, P_8, P_8>>)
Line_v6       == DigLine(FALSE, V6_loopback)
Line_name     == DigLine(FALSE, << <<"a">>, <<>> >>)
Line_cname    == DigLine(TRUE,  << <<"a">>, <<" ", "C", "N", "A", "M", "E">> >>)

DigLines ==
    {Line_blank, Line_cgn, Line_cgn_top, Line_above, Line_public, Line_v6,
     Line_name, Line_cname}

MaxDigLines == 2

RECURSIVE DigOutputs(_)
DigOutputs(n) ==
    IF n = 0 THEN {<<>>}
    ELSE LET shorter == DigOutputs(n - 1)
         IN  shorter \cup {Append(o, l) : o \in {u \in shorter : Len(u) = n - 1},
                                          l \in DigLines}

DigMissing ==
    [kind |-> "missing", returncode |-> 0, lines |-> <<>>, stderr |-> "",
     elapsed_ms |-> 0]
DigTimeout ==
    [kind |-> "timeout", returncode |-> 0, lines |-> <<>>, stderr |-> "",
     elapsed_ms |-> 0]
DigExit(rc, lines, err, ms) ==
    [kind |-> "exit", returncode |-> rc, lines |-> lines, stderr |-> err,
     elapsed_ms |-> ms]

DigElapsedMs == 25

DigEnvs ==
    {DigMissing, DigTimeout}
    \cup {DigExit(9, <<>>, err, DigElapsedMs) :
            err \in {"", "dig: couldn't get address for resolver"}}
    \cup {DigExit(9, <<Line_cname>>, "", DigElapsedMs)}
    \cup {DigExit(0, lines, "", DigElapsedMs) : lines \in DigOutputs(MaxDigLines)}

\* dns_server=None
NoneServer == "None"

DnsServerArgs == {NoneServer, "8.8.8.8"}

DomainArgs == {F_a_lower, F_a_dot, <<"b">>, <<"z">>}

\* zone files the constructor can have loaded without raising
ZoneFiles == {<<>>, <<L_A>>, <<L_A, L_CNAME, L_MX>>}

DnsTimeoutSentinelMs == 10000

\* the for loop with its CNAME branch taken out: every line is tried as an
\* address
RECURSIVE ParseDigLinesWithoutCname(_, _, _)
ParseDigLinesWithoutCname(lines, resolved_ips, cname_seen) ==
    IF lines = <<>>
    THEN [resolved_ips |-> resolved_ips, cname_seen |-> cname_seen]
    ELSE LET line == Head(lines)
         IN  IF line.text # <<>> /\ IpAddress(line.text).exc = "none"
             THEN ParseDigLinesWithoutCname(Tail(lines),
                                Append(resolved_ips, AddressStr(line.text)),
                                cname_seen)
             ELSE ParseDigLinesWithoutCname(Tail(lines), resolved_ips, cname_seen)

\* the for loop over the output lines: [resolved_ips, cname_seen]
RECURSIVE ParseDigLines(_, _, _)
ParseDigLines(lines, resolved_ips, cname_seen) ==
    IF lines = <<>>
    THEN [resolved_ips |-> resolved_ips, cname_seen |-> cname_seen]
    ELSE LET line == Head(lines)
         IN  IF ~line.cname /\ line.text = <<>>
             THEN ParseDigLines(Tail(lines), resolved_ips, cname_seen)
             ELSE IF line.cname
             THEN ParseDigLines(Tail(lines), resolved_ips, TRUE)
             ELSE IF IpAddress(line.text).exc = "none"
             THEN ParseDigLines(Tail(lines),
                                Append(resolved_ips, AddressStr(line.text)),
                                cname_seen)
             ELSE ParseDigLines(Tail(lines), resolved_ips, cname_seen)

\* the loop without its break: the last address decides
RECURSIVE LastCgnIp(_)
LastCgnIp(ips) ==
    IF ips = <<>> THEN [exc |-> "none", val |-> FALSE]
    ELSE IF Len(ips) = 1 THEN IsCgnIp(Head(ips))
    ELSE LastCgnIp(Tail(ips))

\* for ip in resolved_ips: if self._is_cgn_ip(ip): is_valid_cgn = True; break
RECURSIVE AnyCgnIp(_)
AnyCgnIp(ips) ==
    IF ips = <<>> THEN [exc |-> "none", val |-> FALSE]
    ELSE LET r == IsCgnIp(Head(ips))
         IN  IF r.exc # "none" \/ r.val THEN r ELSE AnyCgnIp(Tail(ips))

\* a membership test that forgives a trailing dot of the queried name
InZoneIgnoringTrailingDot(zone, domain) ==
    \E i \in 1..Len(zone) : DictKeys(zone)[i] = RStripDot(domain)

\* domain in self.dns_domains_to_test
InZone(zone, domain) ==
    \E i \in 1..Len(zone) : DictKeys(zone)[i] = domain

\* an initial entry that already claims success
ResultEntrySuccessful(domain, dns_server) ==
    [domain |-> domain,
     dns_server |-> IF dns_server = "None" THEN "system" ELSE dns_server,
     success |-> TRUE,
     response_time_ms |-> 0,
     query_time_ms |-> 0,
     status |-> "FAILED_VALIDATION",
     resolved_ips |-> <<>>,
     error |-> ""]

ResultEntry(domain, dns_server) ==
    [domain |-> domain,
     dns_server |-> IF dns_server = NoneServer THEN "system" ELSE dns_server,
     success |-> FALSE,
     response_time_ms |-> 0,
     query_time_ms |-> 0,
     status |-> "FAILED_VALIDATION",
     resolved_ips |-> <<>>,
     error |-> ""]

\* the error messages, without the domain or exception text put into them
ErrNotInZone   == "Domain not found in the provided zone file."
ErrDigFailed   == "dig command failed"
ErrCnameChain  == "CNAME chain did not resolve to an A record."
ErrNotCgn      == "Resolved IP(s) not within 100.64.0.0/10 CGN range."
ErrUnexpected  == "An unexpected error occurred: "

\* str(e) of the FileNotFoundError subprocess.run raises without dig
DigMissingText == "[Errno 2] No such file or directory: 'dig'"

\* except subprocess.TimeoutExpired
TimeoutEntry(entry) ==
    [entry EXCEPT !.response_time_ms = DnsTimeoutSentinelMs,
                  !.error = "Timeout",
                  !.status = "TIMEOUT"]

\* an unexpected failure that leaves the status as it was
ErrorEntryKeepingStatus(entry, text) ==
    [entry EXCEPT !.error = ErrUnexpected \o text]

\* except Exception as e
ErrorEntry(entry, text) ==
    [entry EXCEPT !.error = ErrUnexpected \o text, !.status = "ERROR"]

\* run_dns_performance_test(domain, dns_server) on the registry `zone` when
\* subprocess.run behaves as env: [exc, result, invocations]
RunDnsPerformanceTest(zone, domain, dns_server, env) ==
    LET entry == ResultEntry(domain, dns_server)
        out(result, n) == [exc |-> "none", result |-> result, invocations |-> n]
    IN  IF ~InZone(zone, domain)
        THEN out([entry EXCEPT !.error = ErrNotInZone], 0)
        ELSE CASE env.kind = "timeout" ->
                    out(TimeoutEntry(entry), 1)
               [] env.kind = "missing" ->
                    \* FileNotFoundError: caught by "except Exception"
                    out(ErrorEntry(entry, DigMissingText), 1)
               [] OTHER ->
                    LET timed == [entry EXCEPT !.response_time_ms = env.elapsed_ms]
                    IN  IF env.returncode # 0
                        THEN out([timed EXCEPT !.error =
                                     IF env.stderr # "" THEN env.stderr
                                     ELSE ErrDigFailed], 1)
                        ELSE LET parsed == ParseDigLines(env.lines, <<>>, FALSE)
                                 with_ips == [timed EXCEPT !.resolved_ips =
                                                 parsed.resolved_ips]
                                 valid == AnyCgnIp(parsed.resolved_ips)
                             IN  IF parsed.cname_seen /\ parsed.resolved_ips = <<>>
                                 THEN out([with_ips EXCEPT !.error = ErrCnameChain], 1)
                                 ELSE IF valid.exc # "none"
                                 THEN out(ErrorEntry(with_ips, valid.exc), 1)
                                 ELSE IF valid.val
                                 THEN out([with_ips EXCEPT
                                              !.success = TRUE,
                                              !.status = "SUCCESS",
                                              !.query_time_ms = env.elapsed_ms], 1)
                                 ELSE out([with_ips EXCEPT
                                              !.error = ErrNotCgn,
                                              !.status = "FAILED_CGN_VALIDATION"], 1)

DnsIdleWith(zone, domain, dns_server, env) ==
    /\ dns_pc = "idle"
    /\ dns_entries_from_zone = zone
    /\ dns_call = [domain |-> domain, dns_server |-> dns_server, env |-> env]
    /\ dns_result = ResultEntry(<<>>, NoneServer)
    /\ dns_exc = "none"
    /\ dig_invocations = 0

DnsIdle == DnsIdleWith(<<>>, <<>>, NoneServer, DigTimeout)

DnsInit ==
    \E file \in ZoneFiles, domain \in DomainArgs, dns_server \in DnsServerArgs,
       env \in DigEnvs :
        DnsIdleWith(ParseZoneLines(<<>>, file).recs, domain, dns_server, env)

CallRunDnsPerformanceTest ==
    /\ dns_pc = "idle"
    /\ LET r == RunDnsPerformanceTest(dns_entries_from_zone, dns_call.domain,
                                      dns_call.dns_server, dns_call.env)
       IN  /\ dns_pc' = IF r.exc = "none" THEN "returned" ELSE "raised"
           /\ dns_result' = r.result
           /\ dns_exc' = r.exc
           /\ dig_invocations' = r.invocations
    /\ UNCHANGED <<dns_entries_from_zone, dns_call>>
    /\ UNCHANGED vars_notdns

-----------------------------------------------------------------------------
(* run_all_dns_tests.  The main thread submits one lookup per registry     *)
(* domain to a ThreadPoolExecutor, then appends the results in the order   *)
(* as_completed yields them; the threads of the pool take the submitted    *)
(* work items in submission order and run them.                            *)

\* ThreadPoolExecutor(max_workers=5)
MaxWorkers == 5

ServerList(list) == [is_none |-> FALSE, list |-> list]

\* dns_servers=None
DefaultServers == [is_none |-> TRUE, list |-> <<>>]

\* [None, '8.8.8.8', '1.1.1.1']
DefaultDnsServers == ServerList(<<NoneServer, "8.8.8.8", "1.1.1.1">>)

DnsServerLists ==
    {DefaultServers, ServerList(<<>>), ServerList(<<"8.8.8.8">>),
     ServerList(<<NoneServer, "8.8.8.8">>)}

\* if dns_servers is None: dns_servers = [None, '8.8.8.8', '1.1.1.1']
ServersOf(arg) == IF arg.is_none THEN DefaultDnsServers ELSE arg

PoolNames == <<"a", "b", "c", "d", "e", "f", "g">>

\* the registry loaded from a zone file of n A records
PoolZone(n) ==
    ParseZoneLines(<<>>,
        [i \in 1..n |-> << <<PoolNames[i], ".">>, F_ttl, F_IN, F_A, F_ip >>]).recs

PoolEnvs == {DigTimeout, DigExit(0, <<Line_cgn>>, "", DigElapsedMs)}

\* a pool that starts a thread for every submit, without a maximum
ThreadsUnbounded(threads) == threads + 1

\* executor.submit: _adjust_thread_count starts a thread while fewer than
\* max_workers exist
ThreadsAfterSubmit(threads) ==
    IF threads < MaxWorkers THEN threads + 1 ELSE threads

\* a sink whose append writes over the last record
SinkOverwrite(sink, result) ==
    IF sink = <<>> THEN <<result>> ELSE [sink EXCEPT ![Len(sink)] = result]

\* self.results['dns_tests'].append(result)
SinkAppend(sink, result) == Append(sink, result)

\* a loop that takes the resolvers from the end of the list
ResolverFromEnd(list, i) == list[Len(list) + 1 - i]

\* the dns_server of the i-th pass of "for dns_server in dns_servers"
Resolver(list, i) == list[i]

\* a future: the call submitted, and "pending", "running", "finished" or,
\* once as_completed has yielded it, "yielded"
Future(state, domain, dns_server) ==
    [state |-> state, domain |-> domain, dns_server |-> dns_server]

\* future.result(): what the call of the future returned or raised; the
\* call reads the registry and the block only, which the run never writes
FutureResult(f) ==
    RunDnsPerformanceTest(dns_entries_from_zone, f.domain, f.dns_server, pool_env)

FuturesIn(state) == {i \in 1..Len(futures) : futures[i].state = state}

PoolIdle ==
    /\ pool_pc = "done"
    /\ dns_servers = ServerList(<<>>)
    /\ dns_server_i = 1
    /\ pool_env = DigTimeout
    /\ pool_threads = 0
    /\ futures = <<>>
    /\ results_dns = <<>>

PoolInitWith(arg, env) ==
    /\ pool_pc = "start"
    /\ dns_servers = arg
    /\ dns_server_i = 1
    /\ pool_env = env
    /\ pool_threads = 0
    /\ futures = <<>>
    /\ results_dns = <<>>

\* the head of the method, up to the loop over dns_servers
PoolStart ==
    /\ pool_pc = "start"
    /\ dns_servers' = ServersOf(dns_servers)
    /\ pool_pc' = "enter"
    /\ UNCHANGED <<dns_server_i, pool_env, pool_threads, futures, results_dns>>
    /\ UNCHANGED vars_notpool

\* "for dns_server in dns_servers": the next pass creates its executor and
\* the empty list futures; after the last pass the method returns
PoolEnter ==
    /\ pool_pc = "enter"
    /\ IF dns_server_i > Len(dns_servers.list)
       THEN /\ pool_pc' = "done"
            /\ UNCHANGED <<pool_threads, futures>>
       ELSE /\ pool_pc' = "submit"
            /\ pool_threads' = 0
            /\ futures' = <<>>
    /\ UNCHANGED <<dns_servers, dns_server_i, pool_env, results_dns>>
    /\ UNCHANGED vars_notpool

\* one pass of "for domain in self.dns_domains_to_test": executor.submit
\* and futures.append
PoolSubmit ==
    /\ pool_pc = "submit"
    /\ Len(futures) < Len(dns_entries_from_zone)
    /\ futures' =
          Append(futures,
                 Future("pending",
                        DictKeys(dns_entries_from_zone)[Len(futures) + 1],
                        Resolver(dns_servers.list, dns_server_i)))
    /\ pool_threads' = ThreadsAfterSubmit(pool_threads)
    /\ UNCHANGED <<pool_pc, dns_servers, dns_server_i, pool_env, results_dns>>
    /\ UNCHANGED vars_notpool

\* the submit loop is over: as_completed(futures) is entered
PoolSubmitted ==
    /\ pool_pc = "submit"
    /\ Len(futures) = Len(dns_entries_from_zone)
    /\ pool_pc' = "collect"
    /\ UNCHANGED <<dns_servers, dns_server_i, pool_env, pool_threads, futures,
                   results_dns>>
    /\ UNCHANGED vars_notpool

\* a thread of the pool that runs no work item takes the oldest pending
\* one and enters run_dns_performance_test
WorkerStart ==
    /\ pool_pc \in {"submit", "collect"}
    /\ FuturesIn("pending") # {}
    /\ Cardinality(FuturesIn("running")) < pool_threads
    /\ LET i == CHOOSE j \in FuturesIn("pending") :
                    \A k \in FuturesIn("pending") : j <= k
       IN  futures' = [futures EXCEPT ![i].state = "running"]
    /\ UNCHANGED <<pool_pc, dns_servers, dns_server_i, pool_env, pool_threads,
                   results_dns>>
    /\ UNCHANGED vars_notpool

\* run_dns_performance_test returns in a thread of the pool: its future
\* is finished
WorkerFinish ==
    /\ pool_pc \in {"submit", "collect"}
    /\ \E i \in FuturesIn("running") :
        futures' = [futures EXCEPT ![i].state = "finished"]
    /\ UNCHANGED <<pool_pc, dns_servers, dns_server_i, pool_env, pool_threads,
                   results_dns>>
    /\ UNCHANGED vars_notpool

\* one pass of "for future in as_completed(futures)": a finished future not
\* yet yielded is yielded, future.result() is appended to the sink
PoolCollect ==
    /\ pool_pc = "collect"
    /\ \E i \in FuturesIn("finished") :
        /\ futures' = [futures EXCEPT ![i].state = "yielded"]
        /\ IF FutureResult(futures[i]).exc # "none"
           THEN /\ pool_pc' = "raised"
                /\ UNCHANGED results_dns
           ELSE /\ results_dns' =
                      SinkAppend(results_dns, FutureResult(futures[i]).result)
                /\ UNCHANGED pool_pc
    /\ UNCHANGED <<dns_servers, dns_server_i, pool_env, pool_threads>>
    /\ UNCHANGED vars_notpool

\* as_completed has yielded every future: the with block is left
\* (shutdown(wait=True)) and the loop goes to the next dns_server
PoolExit ==
    /\ pool_pc = "collect"
    /\ FuturesIn("yielded") = 1..Len(futures)
    /\ dns_server_i' = dns_server_i + 1
    /\ pool_pc' = "enter"
    /\ UNCHANGED <<dns_servers, pool_env, pool_threads, futures, results_dns>>
    /\ UNCHANGED vars_notpool

-----------------------------------------------------------------------------
(* Specifications *)

InitZone == PoolIdle /\ IperfIdle /\ DnsIdle /\ ZoneInit /\ CgnIdle /\ ExtIdle /\ TrialIdle
SpecZone == InitZone /\ [][NextZone]_vars

InitCgn == PoolIdle /\ IperfIdle /\ DnsIdle /\ ZoneInit /\ CgnInit /\ ExtIdle /\ TrialIdle
NextCgn == CallIsCgnIp
SpecCgn == InitCgn /\ [][NextCgn]_vars

InitExtract == PoolIdle /\ IperfIdle /\ DnsIdle /\ ZoneInit /\ CgnIdle /\ ExtInit /\ TrialIdle
NextExtract == CallExtractors
SpecExtract == InitExtract /\ [][NextExtract]_vars

InitTrial == PoolIdle /\ IperfIdle /\ DnsIdle /\ ZoneInit /\ CgnIdle /\ ExtIdle /\ TrialInit
NextTrial == CallRunIperfTest
SpecTrial == InitTrial /\ [][NextTrial]_vars

InitIperf == PoolIdle /\ DnsIdle /\ ZoneInit /\ CgnIdle /\ ExtIdle /\ TrialIdle /\ IperfInit
NextIperf ==
    \/ IperfStart
    \/ IperfTrialCall
    \/ IperfTrial
    \/ IperfAggregate
SpecIperf == InitIperf /\ [][NextIperf]_vars

InitBatch == PoolIdle /\ DnsIdle /\ ZoneInit /\ CgnIdle /\ ExtIdle /\ TrialIdle /\ BatchInit
NextBatch == IperfAggregate
SpecBatch == InitBatch /\ [][NextBatch]_vars

InitDns == PoolIdle /\ IperfIdle /\ ZoneInit /\ CgnIdle /\ ExtIdle /\ TrialIdle /\ DnsInit
NextDns == CallRunDnsPerformanceTest
SpecDns == InitDns /\ [][NextDns]_vars

\* runs of run_all_dns_tests: the registries of 0 to MaxPoolLookups domains
\* and the resolver lists that make at most MaxPoolLookups lookups
InitPool ==
    /\ IperfIdle /\ ZoneInit /\ CgnIdle /\ ExtIdle /\ TrialIdle
    /\ \E n \in 0..MaxPoolLookups, arg \in DnsServerLists, env \in PoolEnvs :
        /\ n * Len(ServersOf(arg).list) <= MaxPoolLookups
        /\ DnsIdleWith(PoolZone(n), <<>>, NoneServer, DigTimeout)
        /\ PoolInitWith(arg, env)
NextPool ==
    \/ PoolStart
    \/ PoolEnter
    \/ PoolSubmit
    \/ PoolSubmitted
    \/ WorkerStart
    \/ WorkerFinish
    \/ PoolCollect
    \/ PoolExit
SpecPool == InitPool /\ [][NextPool]_vars

\* a thread of the pool that can take or finish a work item does so: dig
\* ends or is stopped by its timeout, and the threads are scheduled
FairSpecPool ==
    /\ InitPool
    /\ [][NextPool]_vars
    /\ WF_vars(WorkerStart)
    /\ WF_vars(WorkerFinish)


-----------------------------------------------------------------------------
(* C2: a line that is neither blank, comment nor directive and has fewer   *)
(* than 5 whitespace-separated fields is ignored: the registry is what it  *)
(* was before the line, nothing is raised and loading goes on.             *)

ShortDataLine(fields) ==
    /\ ~StartsWith(fields, ";")
    /\ ~StartsWith(fields, "$")
    /\ Len(fields) < 5

\* C2: a short data line (fewer than 5 fields) leaves the registry as it
\* was, raises nothing, and the loader goes on
C2_ShortLinesIgnored ==
    (zone_count > 0 /\ ShortDataLine(zone_line)) =>
        /\ parsed_records = zone_before
        /\ zone_exc = "none"
        /\ zone_pc \in {"reading", "returned"}

-----------------------------------------------------------------------------
(* C3: _is_cgn_ip returns TRUE for every address literal inside            *)
(* 100.64.0.0/10 and returns FALSE, raising nothing, for every other       *)
(* string, malformed ones included.                                        *)

\* a dotted quad 100.b.c.d with 64 <= b <= 127
InsideCgnBlock(text) ==
    /\ Len(text) = 4
    /\ \A i \in 1..4 : ParseOctet(text[i]) \in 0..255
    /\ ParseOctet(text[1]) = 100
    /\ ParseOctet(text[2]) \in 64..127

\* C3: _is_cgn_ip never raises and answers TRUE exactly for the literals
\* inside 100.64.0.0/10
C3_CgnTotal ==
    cgn_pc = "done" =>
        /\ cgn_call.exc = "none"
        /\ cgn_call.val = InsideCgnBlock(cgn_call.arg)

-----------------------------------------------------------------------------
(* C9: whatever the shape of the parsed payload ('end', 'sum_received',    *)
(* 'sum_sent' or 'sum' absent, or present but not a mapping), none of the  *)
(* four extractors raises; where the field path is not there the extractor *)
(* returns its zero default.                                               *)

IsMapping(j) == j.t = "dict"

\* the value at payload[k1][k2][k3] when every step is a mapping holding
\* the key, and Absent otherwise
FieldAt(j, k1, k2, k3) ==
    IF /\ IsMapping(j) /\ k1 \in DOMAIN j.m
       /\ IsMapping(j.m[k1]) /\ k2 \in DOMAIN j.m[k1].m
       /\ IsMapping(j.m[k1].m[k2]) /\ k3 \in DOMAIN j.m[k1].m[k2].m
    THEN Present(j.m[k1].m[k2].m[k3])
    ELSE Absent

\* C9: no extractor raises, and each returns 0 where its field path is absent
C9_ExtractorsNeverRaise ==
    ext_pc = "done" =>
        /\ \A f \in {"bandwidth", "retransmits", "jitter", "packet_loss"} :
              ext_results[f].exc = "none"
        /\ ~FieldAt(ext_payload, "end", "sum_sent", "retransmits").present
              => ext_results.retransmits.val = JNum(0)
        /\ ~FieldAt(ext_payload, "end", "sum", "jitter_ms").present
              => ext_results.jitter.val = JNum(0)
        /\ ~FieldAt(ext_payload, "end", "sum", "lost_percent").present
              => ext_results.packet_loss.val = JNum(0)
        /\ (/\ ~FieldAt(ext_payload, "end", "sum_received", "bits_per_second").present
            /\ ~FieldAt(ext_payload, "end", "sum_sent", "bits_per_second").present)
              => ext_results.bandwidth.val = JNum(0)

-----------------------------------------------------------------------------
(* C6: the timeout run_iperf_test gives the tool is D + 20 seconds, D      *)
(* being the integer after '-t', or 60 when there is no '-t' duration.     *)

\* the places of params where '-t' is followed by an integer
DurationPlaces(params) ==
    {i \in 1..(Len(params) - 1) :
        params[i] = "-t" /\ PyInt(params[i + 1]).exc = "none"}

LastDurationPlace(params) ==
    CHOOSE i \in DurationPlaces(params) : \A j \in DurationPlaces(params) : j <= i

DeclaredDuration(params) ==
    IF DurationPlaces(params) = {} THEN 60
    ELSE PyInt(params[LastDurationPlace(params) + 1]).n

\* C6 as stated: the timeout is D + 20, the default D = 60 getting the
\* headroom too
C6_TimeoutIsDurationPlus20 ==
    trial_pc # "idle" =>
        timeout_sec = DeclaredDuration(trial_call.scenario.params) + 20

\* C6 as amended: D + 20 where D is the integer after the last '-t' that is
\* followed by an integer; exactly 60, with no headroom, when there is none
C6_TimeoutAmended ==
    trial_pc # "idle" =>
        LET params == trial_call.scenario.params
        IN  timeout_sec =
                IF DurationPlaces(params) = {} THEN 60
                ELSE DeclaredDuration(params) + 20

C6_Witness ==
    /\ trial_pc = "returned"
    /\ trial_call.scenario = Scenario_NoDuration
    /\ timeout_sec = 60

(* C7: when the tool does not finish within the timeout, run_iperf_test    *)
(* returns success=False, error='Timeout' and duration = the timeout value *)
(* (50 for '-t 30'), and has invoked the tool once.                        *)

\* C7: a timed-out invocation gives success=False, error='Timeout',
\* duration = timeout_sec, after a single invocation
C7_TimeoutResult ==
    (trial_pc # "idle" /\ trial_call.env.kind = "timeout") =>
        /\ trial_pc = "returned"
        /\ trial_result.success = FALSE
        /\ trial_result.error = "Timeout"
        /\ trial_result.duration = timeout_sec
        /\ trial_result.duration =
              IF DurationPlaces(trial_call.scenario.params) = {} THEN 60
              ELSE DeclaredDuration(trial_call.scenario.params) + 20
        /\ trial_call.scenario = Scenario_TcpCongestionT30
              => trial_result.duration = 50
        /\ iperf_invocations = 1

C7_Witness ==
    /\ trial_pc = "returned"
    /\ trial_call.env.kind = "timeout"
    /\ trial_call.scenario = Scenario_TcpCongestionT30
    /\ trial_result.error = "Timeout"
    /\ trial_result.duration = 50

(* C8: however the invocation of the tool fails (executable missing,       *)
(* non-zero exit code, empty output), run_iperf_test returns success=False *)
(* with error = the captured stderr or 'Unknown error'; nothing is raised. *)

InvocationFailed(env) ==
    \/ env.kind = "missing"
    \/ env.kind = "exit" /\ (env.returncode # 0 \/ env.stdout.kind = "empty")

\* C8: a failed invocation is returned as a failed trial carrying stderr or
\* 'Unknown error'; nothing is raised
C8_InvocationFailuresAbsorbed ==
    (trial_pc # "idle" /\ InvocationFailed(trial_call.env)) =>
        /\ trial_pc = "returned"
        /\ trial_exc = "none"
        /\ trial_result.success = FALSE
        /\ trial_result.error =
              IF trial_call.env.stderr # "" THEN trial_call.env.stderr
              ELSE "Unknown error"

-----------------------------------------------------------------------------
(* C4: a batch of 5 trials with at least one successful trial gives an     *)
(* aggregate with success=True whose bandwidth_mbps is the statistical     *)
(* median of the bandwidth_mbps of the successful trials alone (samples    *)
(* 100, 200, 150, 300, 250 give 200); the aggregate has success=False only *)
(* when none of the 5 trials succeeded.                                    *)

\* the k-th smallest of the samples xs[i], i in idx, found by counting
KthSmallest(xs, idx, k) ==
    CHOOSE v \in {xs[i] : i \in idx} :
        /\ Cardinality({i \in idx : xs[i] < v}) < k
        /\ k <= Cardinality({i \in idx : xs[i] <= v})

\* m is the statistical median of the samples xs[i], i in idx
IsMedianOf(m, xs, idx) ==
    LET n == Cardinality(idx)
    IN  IF n % 2 = 1
        THEN m = KthSmallest(xs, idx, (n + 1) \div 2)
        ELSE 2 * m = KthSmallest(xs, idx, n \div 2)
                       + KthSmallest(xs, idx, n \div 2 + 1)

SuccessfulIn(trials) == {i \in 1..Len(trials) : trials[i].success}

BandwidthsOf(trials) ==
    [i \in 1..Len(trials) |->
        IF trials[i].success THEN trials[i].bandwidth_mbps ELSE 0]

\* C4: the aggregation step appends one record whose success says whether
\* any trial succeeded and whose bandwidth_mbps is the median of the
\* successful trials' bandwidths
C4_MedianOfSuccessful ==
    [][iperf_pc = "aggregate" =>
         LET agg == results_iperf'[Len(results_iperf')]
             ok  == SuccessfulIn(trial_results)
         IN  /\ Len(trial_results) = 5
             /\ Len(results_iperf') = Len(results_iperf) + 1
             /\ agg.success = (ok # {})
             /\ ok # {} =>
                   IsMedianOf(agg.bandwidth_mbps, BandwidthsOf(trial_results), ok)
             /\ (ok = 1..5 /\ BandwidthsOf(trial_results) = <<100, 200, 150, 300, 250>>)
                   => agg.bandwidth_mbps = 200
      ]_vars

\* two failed trials among the five: the median is that of the other three
C4_Witness ==
    /\ iperf_pc = "done"
    /\ Len(results_iperf) = 1
    /\ results_iperf[1].success
    /\ results_iperf[1].all_raw_data = <<Json_Reverse300, Json_Tcp100, Json_Tcp200>>
    /\ results_iperf[1].bandwidth_mbps = 200

(* C5: when all 5 trials of a batch fail, the aggregate has success=False  *)
(* and an error made of the 5 trial errors in trial order joined by '; ';  *)
(* the record is appended to the results and nothing is raised.            *)

\* C5: aggregating five failed trials appends a success=False record whose
\* error is the five trial errors in order joined by '; ', raising nothing
C5_AllFailedAggregate ==
    [][(iperf_pc = "aggregate" /\ SuccessfulIn(trial_results) = {}) =>
         LET agg == results_iperf'[Len(results_iperf')]
             e   == [i \in 1..5 |-> trial_results[i].error]
         IN  /\ Len(trial_results) = 5
             /\ iperf_pc' \in {"trial", "done"}
             /\ iperf_exc' = "none"
             /\ Len(results_iperf') = Len(results_iperf) + 1
             /\ SubSeq(results_iperf', 1, Len(results_iperf)) = results_iperf
             /\ agg.success = FALSE
             /\ agg.error = e[1] \o "; " \o e[2] \o "; " \o e[3] \o "; "
                              \o e[4] \o "; " \o e[5]
      ]_vars

C5_Witness ==
    /\ Len(results_iperf) >= 1
    /\ results_iperf[1].success = FALSE
    /\ results_iperf[1].error =
          "Timeout; iperf3: error - unable to connect to server; Timeout; Timeout; iperf3: error - unable to connect to server"

-----------------------------------------------------------------------------
(* C1: for a domain that is no key of the registry,                        *)
(* run_dns_performance_test returns success=False and                      *)
(* status=FAILED_VALIDATION and never invokes dig, whatever the resolver   *)
(* argument.                                                               *)

RegistryKeys == {dns_entries_from_zone[i].domain : i \in 1..Len(dns_entries_from_zone)}

\* C1: a domain outside the registry is rejected with FAILED_VALIDATION and
\* dig is not invoked
C1_UnknownDomainRejected ==
    (dns_pc # "idle" /\ dns_call.domain \notin RegistryKeys) =>
        /\ dns_pc = "returned"
        /\ dns_result.success = FALSE
        /\ dns_result.status = "FAILED_VALIDATION"
        /\ dig_invocations = 0

\* 'a.' is asked for while the registry holds 'a', and dig would have
\* answered with an address of the block
C1_Witness ==
    /\ dns_pc = "returned"
    /\ dns_call.domain = F_a_dot
    /\ F_a_lower \in RegistryKeys
    /\ dns_call.dns_server = "8.8.8.8"
    /\ dns_call.env = DigExit(0, <<Line_cgn>>, "", DigElapsedMs)
    /\ dns_result.status = "FAILED_VALIDATION"
    /\ dig_invocations = 0

(* C10: for a registry domain whose lookup exits with code 0 the result is *)
(* success=True, status=SUCCESS, query_time_ms=response_time_ms when a     *)
(* resolved address lies in 100.64.0.0/10, and success=False,              *)
(* status=FAILED_CGN_VALIDATION otherwise.                                 *)

\* the lines that the parser takes for addresses
AddressLines(lines) ==
    {i \in 1..Len(lines) :
        /\ ~lines[i].cname
        /\ (IsIPv4Text(lines[i].text) \/ lines[i].text \in IPv6Texts)}

HasCgnAddress(lines) ==
    \E i \in AddressLines(lines) : InsideCgnBlock(lines[i].text)

CnameSeen(lines) == \E i \in 1..Len(lines) : lines[i].cname

ExitZeroForRegistryDomain ==
    /\ dns_pc # "idle"
    /\ dns_call.domain \in RegistryKeys
    /\ dns_call.env.kind = "exit"
    /\ dns_call.env.returncode = 0

\* C10 as stated: exit code 0 gives SUCCESS when an address of the block was
\* resolved and FAILED_CGN_VALIDATION in every other case
C10_ExitZeroOutcome ==
    ExitZeroForRegistryDomain =>
        IF HasCgnAddress(dns_call.env.lines)
        THEN /\ dns_result.success = TRUE
             /\ dns_result.status = "SUCCESS"
             /\ dns_result.query_time_ms = dns_result.response_time_ms
        ELSE /\ dns_result.success = FALSE
             /\ dns_result.status = "FAILED_CGN_VALIDATION"

\* C10 as amended: output with a CNAME line and no address is left out; it
\* ends in status FAILED_VALIDATION
C10_ExitZeroOutcomeAmended ==
    ExitZeroForRegistryDomain =>
        LET lines == dns_call.env.lines
        IN  /\ dns_pc = "returned"
            /\ IF HasCgnAddress(lines)
               THEN /\ dns_result.success = TRUE
                    /\ dns_result.status = "SUCCESS"
                    /\ dns_result.query_time_ms = dns_result.response_time_ms
                    /\ dns_result.response_time_ms = dns_call.env.elapsed_ms
               ELSE IF CnameSeen(lines) /\ AddressLines(lines) = {}
               THEN /\ dns_result.success = FALSE
                    /\ dns_result.status = "FAILED_VALIDATION"
               ELSE /\ dns_result.success = FALSE
                    /\ dns_result.status = "FAILED_CGN_VALIDATION"
            /\ lines = <<Line_cgn>> =>
                  dns_result.resolved_ips = << Line_cgn.text >>
            /\ lines = <<Line_public>> =>
                  dns_result.status = "FAILED_CGN_VALIDATION"

C10_Witness ==
    /\ dns_pc = "returned"
    /\ dns_call.domain = F_a_lower
    /\ dns_call.env = DigExit(0, <<Line_cgn, Line_public>>, "", DigElapsedMs)
    /\ dns_result.success
    /\ dns_result.status = "SUCCESS"
    /\ Len(dns_result.resolved_ips) = 2

-----------------------------------------------------------------------------
(* C11: when dig exits with 0 for a registry domain and its output has a   *)
(* line holding CNAME and no line that is an address literal, the result   *)
(* is success=False, status FAILED_VALIDATION with the chain error, and    *)
(* the block validation is not reached.                                    *)

\* C11: CNAME lines without any address line give FAILED_VALIDATION and the
\* chain error, never FAILED_CGN_VALIDATION
C11_CnameChainUnresolved ==
    (/\ ExitZeroForRegistryDomain
     /\ CnameSeen(dns_call.env.lines)
     /\ AddressLines(dns_call.env.lines) = {}) =>
        /\ dns_pc = "returned"
        /\ dns_result.success = FALSE
        /\ dns_result.status = "FAILED_VALIDATION"
        /\ dns_result.error = ErrCnameChain
        /\ dns_result.resolved_ips = <<>>
        /\ dns_result.query_time_ms = 0

C11_Witness ==
    /\ dns_pc = "returned"
    /\ ExitZeroForRegistryDomain
    /\ dns_call.env.lines = <<Line_cname, Line_name>>
    /\ dns_result.error = ErrCnameChain

-----------------------------------------------------------------------------
(* C12: a timeout of dig gives success=False, status TIMEOUT and the       *)
(* response time 10000; a missing dig gives success=False, status ERROR    *)
(* and the description of the failure in error; both return a result and   *)
(* raise nothing.                                                          *)

\* C12: timeout -> TIMEOUT with 10000 ms; dig missing -> ERROR carrying the
\* failure description; a result is returned in both cases
C12_TimeoutAndErrorAbsorbed ==
    (/\ dns_pc # "idle"
     /\ dns_call.domain \in RegistryKeys
     /\ dns_call.env.kind \in {"timeout", "missing"}) =>
        /\ dns_pc = "returned"
        /\ dns_exc = "none"
        /\ dns_result.success = FALSE
        /\ dns_result.domain = dns_call.domain
        /\ dns_call.env.kind = "timeout" =>
              /\ dns_result.status = "TIMEOUT"
              /\ dns_result.response_time_ms = 10000
        /\ dns_call.env.kind = "missing" =>
              /\ dns_result.status = "ERROR"
              /\ dns_result.error =
                    "An unexpected error occurred: " \o DigMissingText

C12_Witness ==
    /\ dns_pc = "returned"
    /\ dns_call.env.kind = "missing"
    /\ dns_result.status = "ERROR"
    /\ dns_result.error = ErrUnexpected \o DigMissingText

-----------------------------------------------------------------------------
(* C18: whatever path run_dns_performance_test returns by, success is TRUE *)
(* exactly when status is SUCCESS and query_time_ms is non-zero only with  *)
(* success; a non-zero exit of dig returns success=False with the initial  *)
(* status FAILED_VALIDATION and no resolved address.                       *)

\* C18: success <=> status SUCCESS; query_time_ms # 0 => success; non-zero
\* exit => success=False, FAILED_VALIDATION, resolved_ips empty
C18_SuccessIffStatusSuccess ==
    dns_pc # "idle" =>
        /\ dns_pc = "returned"
        /\ dns_result.success <=> dns_result.status = "SUCCESS"
        /\ dns_result.query_time_ms # 0 => dns_result.success
        /\ dns_result.status \in
              {"SUCCESS", "FAILED_VALIDATION", "FAILED_CGN_VALIDATION",
               "TIMEOUT", "ERROR"}
        /\ (/\ dns_call.domain \in RegistryKeys
            /\ dns_call.env.kind = "exit"
            /\ dns_call.env.returncode # 0) =>
              /\ dns_result.success = FALSE
              /\ dns_result.status = "FAILED_VALIDATION"
              /\ dns_result.resolved_ips = <<>>
              /\ dns_result.error =
                    IF dns_call.env.stderr # "" THEN dns_call.env.stderr
                    ELSE ErrDigFailed

C18_Witness ==
    /\ dns_pc = "returned"
    /\ dns_call.domain \in RegistryKeys
    /\ dns_call.env.kind = "exit"
    /\ dns_call.env.returncode # 0
    /\ dns_call.env.lines # <<>>
    /\ dns_result.status = "FAILED_VALIDATION"
    /\ dns_result.response_time_ms = DigElapsedMs

-----------------------------------------------------------------------------
(* C17: with 1 to 5 successful trials the aggregate retransmits is the     *)
(* statistical median of their retransmit counts rounded to the nearest    *)
(* integer; a median of 1.5 (counts 1 and 2) gives 2, not 1.               *)

RetransmitsOf(trials) ==
    [i \in 1..Len(trials) |->
        IF trials[i].success THEN trials[i].retransmits ELSE 0]

\* twice the statistical median of the samples xs[i], i in idx
TwiceMedianOf(xs, idx) ==
    LET n == Cardinality(idx)
    IN  IF n % 2 = 1
        THEN 2 * KthSmallest(xs, idx, (n + 1) \div 2)
        ELSE KthSmallest(xs, idx, n \div 2) + KthSmallest(xs, idx, n \div 2 + 1)

\* the integers that h/2 (h >= 0) rounds to: h/2 itself when it is whole,
\* and for a half the next integer up (round-half-up) or the even
\* neighbour (round-half-even)
RoundedHalves(h) ==
    IF h % 2 = 0 THEN {h \div 2}
    ELSE {(h + 1) \div 2,
          IF (h \div 2) % 2 = 0 THEN h \div 2 ELSE h \div 2 + 1}

\* C17: the aggregate retransmits is the median of the successful trials'
\* retransmit counts rounded to an integer, a half not being cut off
C17_RetransmitsRounded ==
    [][(iperf_pc = "aggregate" /\ SuccessfulIn(trial_results) # {}) =>
         LET agg == results_iperf'[Len(results_iperf')]
             ok  == SuccessfulIn(trial_results)
             h   == TwiceMedianOf(RetransmitsOf(trial_results), ok)
         IN  agg.retransmits \in RoundedHalves(h)
      ]_vars

-----------------------------------------------------------------------------
(* C13: in run_all_iperf_tests every (server, scenario) pair gets exactly  *)
(* 5 trials, each entered only when no other trial is in flight, and one   *)
(* aggregate record, appended after the pair's 5th trial and before the    *)
(* first trial of the next pair.                                           *)

\* pairs before the one the loops stand at
PairsBefore == (server_i - 1) * Len(iperf_scenarios) + (scenario_i - 1)

\* run_iperf_test calls entered so far for the pair the loops stand at
TrialsIssued == Len(trial_results) + iperf_in_flight

-----------------------------------------------------------------------------
(* C14: in run_all_dns_tests, whatever the order in which the lookups      *)
(* finish, each (domain, resolver) pair gets exactly one result in the     *)
(* sink: at the end the sink holds |registry| x |resolvers| results, none  *)
(* lost, doubled or overwritten.                                           *)

\* the list of resolvers the run iterates
ResolversOfRun ==
    IF dns_servers.is_none THEN <<"None", "8.8.8.8", "1.1.1.1">>
    ELSE dns_servers.list

\* result_entry['dns_server'] for a resolver
ResolverName(r) == IF r = "None" THEN "system" ELSE r

\* the places of the sink that hold the result of the pair
SinkPlaces(domain, r) ==
    {j \in 1..Len(results_dns) :
        /\ results_dns[j].domain = domain
        /\ results_dns[j].dns_server = ResolverName(r)}

\* C14: never two results for one pair, and one result for every pair when
\* the run has ended; the run ends by returning
C14_OneResultPerPair ==
    /\ pool_pc # "raised"
    /\ \A j \in 1..Len(results_dns) :
          /\ results_dns[j].domain \in RegistryKeys
          /\ \E k \in 1..Len(ResolversOfRun) :
                results_dns[j].dns_server = ResolverName(ResolversOfRun[k])
    /\ \A d \in RegistryKeys : \A k \in 1..Len(ResolversOfRun) :
          /\ Cardinality(SinkPlaces(d, ResolversOfRun[k])) <= 1
          /\ (pool_pc = "done" /\ dns_pc = "idle") =>
                Cardinality(SinkPlaces(d, ResolversOfRun[k])) = 1
    /\ (pool_pc = "done" /\ dns_pc = "idle") =>
          Len(results_dns) = Cardinality(RegistryKeys) * Len(ResolversOfRun)

\* a finished run of 3 lookups against each of 2 resolvers, the first
\* group collected in the opposite of the submission order
C14_Witness ==
    /\ pool_pc = "done"
    /\ dns_pc = "idle"
    /\ Len(results_dns) = 6
    /\ Len(ResolversOfRun) = 2
    /\ results_dns[1].domain = <<"c">>
    /\ results_dns[2].domain = <<"b">>
    /\ results_dns[3].domain = <<"a">>

-----------------------------------------------------------------------------
(* C15: no lookup against a resolver is started before the results of all  *)
(* lookups against the resolvers before it are in the sink, so the sink is *)
(* grouped by resolver in the order of the list.                           *)

\* the futures that enter run_dns_performance_test in the step
StartedInStep ==
    {i \in 1..Len(futures') :
        /\ futures'[i].state = "running"
        /\ (i > Len(futures) \/ futures[i].state # "running")}

\* C15: a lookup of the k-th resolver starts only when the sink holds the
\* results of all lookups of resolvers 1..k-1; the j-th result of the sink
\* is one of resolver ceil(j / |registry|)
C15_ResolverBarrier ==
    [][/\ \A i \in StartedInStep :
             \E k \in 1..Len(ResolversOfRun) :
                /\ futures'[i].dns_server = ResolversOfRun[k]
                /\ Len(results_dns) >= (k - 1) * Cardinality(RegistryKeys)
                /\ \A d \in RegistryKeys : \A h \in 1..(k - 1) :
                      SinkPlaces(d, ResolversOfRun[h]) # {}
       /\ \A j \in 1..Len(results_dns') :
             results_dns'[j].dns_server =
                ResolverName(ResolversOfRun[(j - 1) \div Cardinality(RegistryKeys) + 1])
      ]_vars

\* a lookup against the second resolver runs, the two results of the first
\* resolver being in the sink
C15_Witness ==
    /\ dns_server_i = 2
    /\ FuturesIn("running") # {}
    /\ Cardinality(RegistryKeys) = 2
    /\ Len(results_dns) = 2
    /\ results_dns[1].dns_server = "system"
    /\ results_dns[2].dns_server = "system"

-----------------------------------------------------------------------------
(* C16: at most 5 lookups are in flight at any time, however many domains  *)
(* the registry has; the other submitted lookups wait, and every submitted *)
(* lookup is run in the end.                                               *)

\* C16: never more than 5 running lookups, and every pending lookup comes
\* to run
C16_AtMostFiveInFlight ==
    /\ [](Cardinality(FuturesIn("running")) <= 5)
    /\ \A i \in 1..MaxPoolLookups :
          (i \in FuturesIn("pending")) ~> (i \in FuturesIn("running"))

\* five lookups run while a sixth, submitted, waits
C16_Witness ==
    /\ Cardinality(FuturesIn("running")) = 5
    /\ FuturesIn("pending") # {}

====
